---- MODULE Spec2Model ----
(***************************************************************************)
(* Model of the upload service in src/backend/api/index.js (the first of   *)
(* the two copies in the file, lines 1-279, the one with cover images):    *)
(* POST /upload, GET /files, GET /view/:key, GET /download/:key and        *)
(* DELETE /files/:id, over an object store (S3) and a document store       *)
(* (MongoDB).  Strings are sequences of one-character strings, so that the *)
(* key derivation, URL encoding and decoding are computed, not assumed.    *)
(***************************************************************************)
EXTENDS Integers, Sequences, FiniteSets, TLC

(***************************************************************************)
(* Strings                                                                 *)
(***************************************************************************)

\* JavaScript's \s, restricted to the characters the model uses.
Whitespace == {" "}

\* Literal fragments of the code's template strings and of the metadata are
\* kept as one element each; every one of them is made of letters and digits
\* only, so the string functions treat it like a letter.
Fragments == {"view", "download", "viewCoverImage", "host", "English", "null",
              "jpeg", "jpg", "2020", "20261101", "100000", "555555"}

\* [a-zA-Z0-9] of the extension pattern, restricted to the model's characters.
AlphaNum == {"k", "m", "P", "R", "U", "V", "b", "e", "f", "0", "2", "5", "6"}
              \cup Fragments

\* The characters encodeURIComponent leaves alone: A-Z a-z 0-9 - _ . ! ~ * ' ( )
Unreserved == AlphaNum \cup {"-", "_", ".", "!", "~", "*", "'", "(", ")"}

HexDigits == {"0", "2", "5", "6"}

\* The value a malformed escape makes decodeURIComponent throw.
URIError == <<"URIError">>

\* s.replace(/\s+/g, "_"): every run of whitespace becomes one underscore.
RECURSIVE ReplaceWhitespace(_)
ReplaceWhitespace(s) ==
  IF s = <<>> THEN <<>>
  ELSE IF Head(s) \in Whitespace
       THEN IF Len(s) > 1 /\ s[2] \in Whitespace
            THEN ReplaceWhitespace(Tail(s))
            ELSE <<"_">> \o ReplaceWhitespace(Tail(s))
       ELSE <<Head(s)>> \o ReplaceWhitespace(Tail(s))

\* s.replace(/\.[a-zA-Z0-9]+$/, ""): drops a final ".ext" of alphanumerics.
StripExtension(s) ==
  LET dots == {i \in 1..Len(s) : /\ s[i] = "."
                                 /\ i < Len(s)
                                 /\ \A j \in (i+1)..Len(s) : s[j] \in AlphaNum}
  IN IF dots = {} THEN s
     ELSE LET i == CHOOSE d \in dots : \A e \in dots : d <= e
          IN SubSeq(s, 1, i - 1)

\* The escape of one reserved character (its UTF-8 byte in hex).
EscapeOf(c) ==
  CASE c = " "  -> <<"%", "2", "0">>
    [] c = "\"" -> <<"%", "2", "2">>
    [] c = "%"  -> <<"%", "2", "5">>
    [] c = "&"  -> <<"%", "2", "6">>

RECURSIVE encodeURIComponent(_)
encodeURIComponent(s) ==
  IF s = <<>> THEN <<>>
  ELSE (IF Head(s) \in Unreserved THEN <<Head(s)>> ELSE EscapeOf(Head(s)))
       \o encodeURIComponent(Tail(s))

\* The character a two-digit escape stands for, over the model's hex digits
\* (control characters and the grave accent are written as \xNN).
CharOfEscape(h1, h2) ==
  CASE h1 = "2" /\ h2 = "0" -> " "
    [] h1 = "2" /\ h2 = "2" -> "\""
    [] h1 = "2" /\ h2 = "5" -> "%"
    [] h1 = "2" /\ h2 = "6" -> "&"
    [] h1 = "5" /\ h2 = "0" -> "P"
    [] h1 = "5" /\ h2 = "2" -> "R"
    [] h1 = "5" /\ h2 = "5" -> "U"
    [] h1 = "5" /\ h2 = "6" -> "V"
    [] h1 = "6" /\ h2 = "0" -> "\\x60"
    [] h1 = "6" /\ h2 = "2" -> "b"
    [] h1 = "6" /\ h2 = "5" -> "e"
    [] h1 = "6" /\ h2 = "6" -> "f"
    [] h1 = "0" /\ h2 = "0" -> "\\x00"
    [] h1 = "0" /\ h2 = "2" -> "\\x02"
    [] h1 = "0" /\ h2 = "5" -> "\\x05"
    [] h1 = "0" /\ h2 = "6" -> "\\x06"

\* decodeURIComponent: every %XX becomes its character; a "%" that is not
\* followed by two hex digits throws URIError.
RECURSIVE decodeURIComponent(_)
decodeURIComponent(s) ==
  IF s = URIError THEN URIError
  ELSE IF s = <<>> THEN <<>>
  ELSE IF Head(s) = "%"
       THEN IF Len(s) >= 3 /\ s[2] \in HexDigits /\ s[3] \in HexDigits
            THEN LET rest == decodeURIComponent(SubSeq(s, 4, Len(s)))
                 IN IF rest = URIError THEN URIError
                    ELSE <<CharOfEscape(s[2], s[3])>> \o rest
            ELSE URIError
       ELSE LET rest == decodeURIComponent(Tail(s))
            IN IF rest = URIError THEN URIError ELSE <<Head(s)>> \o rest

\* s.split("/").pop(): what follows the last "/".
SplitPop(s) ==
  LET slashes == {i \in 1..Len(s) : s[i] = "/"}
  IN IF slashes = {} THEN s
     ELSE LET i == CHOOSE d \in slashes : \A e \in slashes : d >= e
          IN SubSeq(s, i + 1, Len(s))

(***************************************************************************)
(* Configuration and inputs                                                *)
(***************************************************************************)

\* The files of all upload requests together, and the delete requests
\* modelled.  An upload request holds up to MaxFiles files, and up to MaxFiles
\* upload requests arrive.
MaxFiles == 2
NumDeletes == 1

\* The longest file name of the URL round-trip specification.
MaxNameLen == 3

\* process.env.BASE_URL
BASE_URL == <<"https", ":", "/", "/", "host">>

\* limits.fileSize of the multer configuration, in bytes.
FileSizeLimit == 50 * 1024 * 1024

allowedTypes == {<<"audio", "mpeg">>, <<"audio", "wav">>,
                 <<"audio", "flac">>, <<"audio", "ogg">>}

\* JavaScript's null (falsy, like the empty string).
NULL == <<>>

NoPicture == [format |-> NULL, data |-> "none"]
JpegPicture == [format |-> <<"image", <<"jpeg">>>>, data |-> "art"]

\* The files a client sends: originalname, mimetype, size, buffer, and what
\* music-metadata reads from the buffer (common.year, common.language,
\* common.picture[0]).
SongPlain ==
  [originalname |-> <<"k", " ", "m", ".", "m">>, mimetype |-> <<"audio", "mpeg">>,
   size |-> 2 * 1024 * 1024, buffer |-> "plain",
   year |-> NULL, language |-> NULL, picture |-> NoPicture]
SongArt ==
  [originalname |-> <<"k", "_", "m", ".", "m">>, mimetype |-> <<"audio", "mpeg">>,
   size |-> 2 * 1024 * 1024, buffer |-> "art",
   year |-> <<"2020">>, language |-> NULL, picture |-> JpegPicture]
SongAmp ==
  [originalname |-> <<"k", "&", "m", ".", "m">>, mimetype |-> <<"audio", "flac">>,
   size |-> 2 * 1024 * 1024, buffer |-> "amp",
   year |-> NULL, language |-> NULL, picture |-> JpegPicture]
TextFile ==
  [originalname |-> <<"k", ".", "m">>, mimetype |-> <<"text", "plain">>,
   size |-> 1024, buffer |-> "text",
   year |-> NULL, language |-> NULL, picture |-> NoPicture]
BigSong ==
  [originalname |-> <<"m", ".", "m">>, mimetype |-> <<"audio", "wav">>,
   size |-> 60 * 1024 * 1024, buffer |-> "big",
   year |-> NULL, language |-> NULL, picture |-> NoPicture]

Files == {SongPlain, SongArt, SongAmp, TextFile, BigSong}

Batches == UNION {[1..n -> Files] : n \in 0..MaxFiles}

\* new Date() as year, month, day digits, and the values Math.random() yields.
Today == <<"20261101">>
RandomNums == {<<"100000">>, <<"555555">>}

UploadIds == 1..MaxFiles
DeleteIds == 1..NumDeletes

\* The ObjectId MongoDB gives the record of file i of upload request u: unique.
ObjectId(u, i) == (u - 1) * MaxFiles + i
RecordIds == {ObjectId(u, i) : u \in UploadIds, i \in 1..MaxFiles}
\* A well-formed id that no record ever gets.
MissingId == 0

(***************************************************************************)
(* Pure parts of POST /upload                                              *)
(***************************************************************************)

\* Mutant: a filter that lets every type through.
fileFilterAny(file) == file.mimetype = file.mimetype

\* fileFilter of the multer configuration.
fileFilter(file) == file.mimetype \in allowedTypes

\* multer: every file passes the filter and none exceeds limits.fileSize.
MulterAccepts(batch) ==
  \A i \in 1..Len(batch) : fileFilter(batch[i]) /\ batch[i].size <= FileSizeLimit

fileKey(file) == ReplaceWhitespace(file.originalname)

fileBaseName(file) == StripExtension(ReplaceWhitespace(file.originalname))

\* getFormattedDate(): year, month, day and a six-digit random number.
getFormattedDate(randomNum) == Today \o randomNum

imageMimeType(file) ==
  IF file.picture.format # NULL THEN file.picture.format
  ELSE <<"image", <<"jpg">>>>

coverImageKeyOf(file, randomNum) ==
  fileBaseName(file) \o <<"-">>
    \o (IF file.language # NULL THEN file.language
        ELSE <<"English">>)
    \o <<"-">>
    \o (IF file.year # NULL THEN file.year ELSE <<"null">>)
    \o <<"-">> \o getFormattedDate(randomNum)
    \o <<".">> \o imageMimeType(file)[2]

viewUrlOf(key) == BASE_URL \o <<"/", "view", "/">> \o encodeURIComponent(key)

downloadUrlOf(key) ==
  BASE_URL \o <<"/", "download", "/">> \o encodeURIComponent(key)

coverImageUrlOf(coverImageKey) ==
  IF coverImageKey # NULL
  THEN BASE_URL \o <<"/", "viewCoverImage", "/">>
         \o encodeURIComponent(coverImageKey)
  ELSE NULL

\* The document File.create inserts.
NewFile(id, key, coverImageKey) ==
  [_id |-> id, filename |-> key, viewUrl |-> viewUrlOf(key),
   downloadUrl |-> downloadUrlOf(key),
   coverImageUrl |-> coverImageUrlOf(coverImageKey), key |-> key]

(***************************************************************************)
(* State                                                                   *)
(***************************************************************************)

VARIABLES
  uploads,    \* the POST /upload requests: files, per-file task state, response
  deletes,    \* the DELETE /files/:id requests: position, looked-up file, response
  storage,    \* the bucket: key -> object
  db,         \* the File collection, in insertion order (ascending uploadedAt)
  lastPut,    \* history: key -> the record id of the task whose put was applied last
  probe       \* the URL round trip of one file name (view and download routes)

vars == <<uploads, deletes, storage, db, lastPut, probe>>

EmptyMap == [k \in {} |-> NULL]

\* Mutant: a put that keeps the object already stored under Key.
S3PutIfAbsent(bucket, key, object) ==
  [k \in (DOMAIN bucket) \cup {key} |->
     IF k \in DOMAIN bucket THEN bucket[k] ELSE object]

\* PutObjectCommand applied to the bucket: the object under Key is replaced.
S3Put(bucket, key, object) ==
  [k \in (DOMAIN bucket) \cup {key} |-> IF k = key THEN object ELSE bucket[k]]

\* The history of puts: the task whose put under key is now the latest.
Remember(history, key, id) ==
  [k \in (DOMAIN history) \cup {key} |-> IF k = key THEN id ELSE history[k]]

\* The task whose put under key was applied last, 0 when there was none.
LastPutOf(key) == IF key \in DOMAIN lastPut THEN lastPut[key] ELSE 0

\* DeleteObjectCommand applied to the bucket: no error when the key is absent.
S3Delete(bucket, key) == [k \in (DOMAIN bucket) \ {key} |-> bucket[k]]

IdleUpload ==
  [files |-> <<>>, pc |-> <<>>, coverImageKey |-> <<>>, status |-> 0,
   json |-> FALSE, error |-> "", uploadedFiles |-> <<>>, completed |-> <<>>]

\* lookup, steps, seenPrimary and seenCover are history: how findById ended,
\* the deletions applied so far, and the tasks whose puts were the latest
\* under the record's two keys when the record was looked up.
IdleDelete ==
  [pc |-> "idle", id |-> MissingId, file |-> NULL, status |-> 0, error |-> "",
   lookup |-> "pending", steps |-> <<>>, seenPrimary |-> 0, seenCover |-> 0]

IdleProbe ==
  [stage |-> "idle", originalname |-> <<>>, key |-> <<>>, viewUrl |-> <<>>,
   downloadUrl |-> <<>>, routeKey |-> <<>>, status |-> 0]

Init ==
  /\ uploads = [u \in UploadIds |-> IdleUpload]
  /\ deletes = [d \in DeleteIds |-> IdleDelete]
  /\ storage = EmptyMap
  /\ db = <<>>
  /\ lastPut = EmptyMap
  /\ probe = IdleProbe

IsIdle(up) == up.status = 0 /\ up.files = <<>>

DbIds == {db[n]._id : n \in 1..Len(db)}

RECURSIVE SumLen(_)
SumLen(S) ==
  IF S = {} THEN 0
  ELSE LET u == CHOOSE v \in S : TRUE
       IN Len(uploads[u].files) + SumLen(S \ {u})

\* The files of the upload requests received so far.
ReceivedFiles == SumLen(UploadIds)

(***************************************************************************)
(* POST /upload                                                            *)
(***************************************************************************)

\* The first await of the per-file task: parseBuffer for audio, else the
\* primary put.
FirstStep(file) == IF file.mimetype[1] = "audio" THEN "parse" ELSE "primaryPut"

\* upload.array("files") and the synchronous start of the handler.  A file
\* multer refuses ends the request in the framework's default error handler
\* (the Error and the MulterError carry no status: 500, an HTML page); an
\* empty batch is answered 400; otherwise every per-file task is started.
UploadRequest(u, batch) ==
  /\ IsIdle(uploads[u])
  /\ \A v \in UploadIds : v < u => ~IsIdle(uploads[v])
  /\ ReceivedFiles + Len(batch) <= MaxFiles
  /\ uploads' = [uploads EXCEPT ![u] =
       IF ~MulterAccepts(batch)
       THEN [IdleUpload EXCEPT !.files = batch,
                               !.pc = [i \in 1..Len(batch) |-> "none"],
                               !.coverImageKey = [i \in 1..Len(batch) |-> NULL],
                               !.status = 500, !.json = FALSE,
                               !.error = "multer"]
       ELSE IF Len(batch) = 0
       THEN [IdleUpload EXCEPT !.status = 400, !.json = TRUE,
                               !.error = "No files uploaded"]
       ELSE [IdleUpload EXCEPT !.files = batch,
                               !.pc = [i \in 1..Len(batch) |-> FirstStep(batch[i])],
                               !.coverImageKey = [i \in 1..Len(batch) |-> NULL]]]
  /\ UNCHANGED <<deletes, storage, db, lastPut, probe>>

\* Mutant: a catch block that reports the records created so far.
UploadCatchPartial(up) ==
  IF up.status = 0
  THEN [up EXCEPT !.status = 200, !.json = TRUE,
                  !.uploadedFiles = [n \in 1..Len(up.completed) |-> up.completed[n]]]
  ELSE up

\* The catch block: the first rejection of Promise.all answers the request.
UploadCatch(up) ==
  IF up.status = 0
  THEN [up EXCEPT !.status = 500, !.json = TRUE, !.error = "File upload failed"]
  ELSE up

\* Mutant: the records in the order the tasks completed.
UploadedFilesByCompletion(u, up) ==
  [n \in 1..Len(up.completed) |-> ObjectId(u, up.completed[n])]

\* Promise.all resolved: the records, in the order of req.files.
UploadedFiles(u, up) == [i \in 1..Len(up.files) |-> ObjectId(u, i)]

\* res.json once every per-file task has returned its record.
UploadThen(u, up) ==
  IF up.status = 0 /\ \A i \in 1..Len(up.pc) : up.pc[i] = "done"
  THEN [up EXCEPT !.status = 200, !.json = TRUE,
                  !.uploadedFiles = UploadedFiles(u, up)]
  ELSE up

Running(u, i, step) ==
  /\ i \in 1..Len(uploads[u].pc)
  /\ uploads[u].pc[i] = step

\* parseBuffer resolved: with a picture the cover key is derived and the
\* cover put is sent, otherwise the primary put is sent.
ParseDone(u, i) ==
  /\ Running(u, i, "parse")
  /\ LET file == uploads[u].files[i]
     IN IF file.picture # NoPicture
        THEN \E randomNum \in RandomNums :
               uploads' = [uploads EXCEPT
                 ![u].pc[i] = "coverPut",
                 ![u].coverImageKey[i] = coverImageKeyOf(file, randomNum)]
        ELSE uploads' = [uploads EXCEPT ![u].pc[i] = "primaryPut"]
  /\ UNCHANGED <<deletes, storage, db, lastPut, probe>>

\* The cover put was applied; the primary put is sent.
CoverPutDone(u, i) ==
  /\ Running(u, i, "coverPut")
  /\ LET file == uploads[u].files[i]
         key == uploads[u].coverImageKey[i]
     IN /\ storage' = S3Put(storage, key,
                            [Body |-> file.picture.data,
                             ContentType |-> imageMimeType(file)])
        /\ lastPut' = Remember(lastPut, key, ObjectId(u, i))
  /\ uploads' = [uploads EXCEPT ![u].pc[i] = "primaryPut"]
  /\ UNCHANGED <<deletes, db, probe>>

\* Mutant: the primary put uses the unsanitised file name as Key.
PrimaryPutRawName(u, i) ==
  /\ Running(u, i, "primaryPut")
  /\ LET file == uploads[u].files[i]
     IN /\ storage' = S3Put(storage, file.originalname,
                            [Body |-> file.buffer, ContentType |-> file.mimetype])
        /\ lastPut' = Remember(lastPut, file.originalname, ObjectId(u, i))
  /\ uploads' = [uploads EXCEPT ![u].pc[i] = "create"]
  /\ UNCHANGED <<deletes, db, probe>>

\* The primary put was applied; File.create is sent.
PrimaryPutDone(u, i) ==
  /\ Running(u, i, "primaryPut")
  /\ LET file == uploads[u].files[i]
     IN /\ storage' = S3Put(storage, fileKey(file),
                            [Body |-> file.buffer, ContentType |-> file.mimetype])
        /\ lastPut' = Remember(lastPut, fileKey(file), ObjectId(u, i))
  /\ uploads' = [uploads EXCEPT ![u].pc[i] = "create"]
  /\ UNCHANGED <<deletes, db, probe>>

\* Mutant: File.create is sent without awaiting the primary put.
CreateWithoutAwait(u, i) ==
  /\ i \in 1..Len(uploads[u].pc)
  /\ uploads[u].pc[i] \in {"primaryPut", "create"}
  /\ db' = Append(db, NewFile(ObjectId(u, i), fileKey(uploads[u].files[i]),
                              uploads[u].coverImageKey[i]))
  /\ uploads' = [uploads EXCEPT ![u] =
       UploadThen(u, [uploads[u] EXCEPT !.pc[i] = "done",
                                        !.completed = Append(@, i)])]
  /\ UNCHANGED <<deletes, storage, lastPut, probe>>

\* File.create resolved: the record is inserted, the task returns it, and the
\* request is answered when it was the last task.
CreateDone(u, i) ==
  /\ Running(u, i, "create")
  /\ db' = Append(db, NewFile(ObjectId(u, i), fileKey(uploads[u].files[i]),
                              uploads[u].coverImageKey[i]))
  /\ uploads' = [uploads EXCEPT ![u] =
       UploadThen(u, [uploads[u] EXCEPT !.pc[i] = "done",
                                        !.completed = Append(@, i)])]
  /\ UNCHANGED <<deletes, storage, lastPut, probe>>

\* parseBuffer, a put or File.create rejected: the task ends, the siblings go
\* on, and the catch block answers if no answer was sent yet.
TaskFail(u, i) ==
  /\ i \in 1..Len(uploads[u].pc)
  /\ uploads[u].pc[i] \in {"parse", "coverPut", "primaryPut", "create"}
  /\ uploads' = [uploads EXCEPT ![u] =
       UploadCatch([uploads[u] EXCEPT !.pc[i] = "failed",
                                      !.coverImageKey[i] = NULL])]
  /\ UNCHANGED <<deletes, storage, db, lastPut, probe>>

(***************************************************************************)
(* GET /files                                                              *)
(***************************************************************************)

RECURSIVE Reverse(_)
Reverse(s) == IF s = <<>> THEN <<>> ELSE Append(Reverse(Tail(s)), Head(s))

\* The body GET /files answers with in the current state:
\* File.find().sort({ uploadedAt: -1 }), newest first.  The route changes
\* nothing.
GetFiles == Reverse(db)

(***************************************************************************)
(* DELETE /files/:id                                                       *)
(***************************************************************************)

\* The coverImageKey the upload task of record id stored the picture under.
StoredCoverKey(id) ==
  LET t == CHOOSE t \in UploadIds \X (1..MaxFiles) : ObjectId(t[1], t[2]) = id
  IN uploads[t[1]].coverImageKey[t[2]]

\* File.findById(id): the record with that _id, or NULL.
findById(id) ==
  IF id \in DbIds THEN db[CHOOSE n \in 1..Len(db) : db[n]._id = id] ELSE NULL

\* The catch block of the delete route.
DeleteCatch(del) ==
  [del EXCEPT !.pc = "done", !.status = 500, !.error = "Failed to delete file",
              !.lookup = IF @ = "pending" THEN "threw" ELSE @]

\* Mutant: no check of the lookup's result; reading file.key of a missing
\* record throws, and the catch block answers.
DeleteRequestNoCheck(d, id) ==
  /\ deletes[d].pc = "idle"
  /\ \A e \in DeleteIds : e < d => deletes[e].pc # "idle"
  /\ LET file == findById(id)
     IN deletes' = [deletes EXCEPT ![d] =
          IF file = NULL
          THEN [@ EXCEPT !.pc = "done", !.id = id, !.status = 500,
                         !.error = "Failed to delete file", !.lookup = "missing"]
          ELSE [@ EXCEPT !.pc = "primary", !.id = id, !.file = file,
                         !.lookup = "found",
                         !.seenPrimary = LastPutOf(file.key),
                         !.seenCover = IF file.coverImageUrl # NULL
                                       THEN LastPutOf(StoredCoverKey(id)) ELSE 0]]
  /\ UNCHANGED <<uploads, storage, db, lastPut, probe>>

\* The request arrives and findById resolves: 404 without a record, else the
\* delete of the primary object is sent.
DeleteRequest(d, id) ==
  /\ deletes[d].pc = "idle"
  /\ \A e \in DeleteIds : e < d => deletes[e].pc # "idle"
  /\ LET file == findById(id)
     IN deletes' = [deletes EXCEPT ![d] =
          IF file = NULL
          THEN [@ EXCEPT !.pc = "done", !.id = id, !.status = 404,
                         !.error = "File not found", !.lookup = "missing"]
          ELSE [@ EXCEPT !.pc = "primary", !.id = id, !.file = file,
                         !.lookup = "found",
                         !.seenPrimary = LastPutOf(file.key),
                         !.seenCover = IF file.coverImageUrl # NULL
                                       THEN LastPutOf(StoredCoverKey(id)) ELSE 0]]
  /\ UNCHANGED <<uploads, storage, db, lastPut, probe>>

\* The request arrives and findById rejects (the database is unreachable, or
\* the id does not cast to an ObjectId).
DeleteFindFail(d, id) ==
  /\ deletes[d].pc = "idle"
  /\ \A e \in DeleteIds : e < d => deletes[e].pc # "idle"
  /\ deletes' = [deletes EXCEPT ![d] = DeleteCatch([@ EXCEPT !.id = id])]
  /\ UNCHANGED <<uploads, storage, db, lastPut, probe>>

\* The key the cover-image object is deleted under.
DeleteCoverKey(file) == SplitPop(file.coverImageUrl)

\* Mutant: the cover-image delete is left out.
DeletePrimarySkipCover(d) ==
  /\ deletes[d].pc = "primary"
  /\ storage' = S3Delete(storage, deletes[d].file.key)
  /\ deletes' = [deletes EXCEPT ![d].pc = "deleteOne",
                                ![d].steps = Append(@, "primary")]
  /\ UNCHANGED <<uploads, db, lastPut, probe>>

\* The primary object was deleted; next the cover image, if the record has a
\* coverImageUrl, else the record.
DeletePrimaryDone(d) ==
  /\ deletes[d].pc = "primary"
  /\ storage' = S3Delete(storage, deletes[d].file.key)
  /\ deletes' = [deletes EXCEPT
       ![d].pc = IF deletes[d].file.coverImageUrl # NULL THEN "cover" ELSE "deleteOne",
       ![d].steps = Append(@, "primary")]
  /\ UNCHANGED <<uploads, db, lastPut, probe>>

\* The cover-image delete was applied; file.deleteOne() is sent.
DeleteCoverDone(d) ==
  /\ deletes[d].pc = "cover"
  /\ storage' = S3Delete(storage, DeleteCoverKey(deletes[d].file))
  /\ deletes' = [deletes EXCEPT ![d].pc = "deleteOne",
                                ![d].steps = Append(@, "cover")]
  /\ UNCHANGED <<uploads, db, lastPut, probe>>

\* file.deleteOne() resolved: the record is gone and the request is answered.
DeleteOneDone(d) ==
  /\ deletes[d].pc = "deleteOne"
  /\ db' = SelectSeq(db, LAMBDA r : r._id # deletes[d].file._id)
  /\ deletes' = [deletes EXCEPT ![d].pc = "done", ![d].status = 200,
                                ![d].steps = Append(@, "record")]
  /\ UNCHANGED <<uploads, storage, lastPut, probe>>

\* A storage delete or file.deleteOne() rejected.
DeleteFail(d) ==
  /\ deletes[d].pc \in {"primary", "cover", "deleteOne"}
  /\ deletes' = [deletes EXCEPT ![d] = DeleteCatch(@)]
  /\ UNCHANGED <<uploads, storage, db, lastPut, probe>>

(***************************************************************************)
(* GET /view/:key and GET /download/:key                                   *)
(***************************************************************************)

\* req.params.key: the router hands the handler the path segment decoded.
ReqParamsKey(url) == decodeURIComponent(SplitPop(url))

\* const fileKey = decodeURIComponent(req.params.key)
RouteFileKey(url) == decodeURIComponent(ReqParamsKey(url))

\* The file names of the round trip: every name up to MaxNameLen characters.
NameChars == {"k", " ", ".", "%", "2", "5", "&"}
Names == UNION {[1..n -> NameChars] : n \in 1..MaxNameLen}

\* POST /upload of one file, as far as its key and URLs go.
ProbeUpload ==
  /\ probe.stage = "file"
  /\ LET key == ReplaceWhitespace(probe.originalname)
         rec == NewFile(MissingId, key, NULL)
     IN probe' = [probe EXCEPT !.stage = "record", !.key = rec.key,
                               !.viewUrl = rec.viewUrl,
                               !.downloadUrl = rec.downloadUrl]
  /\ UNCHANGED <<uploads, deletes, storage, db, lastPut>>

\* The route answers 400 when the router cannot decode the segment, 500 when
\* the handler's decodeURIComponent throws, else it redirects (302).
RouteAnswer(url) ==
  [routeKey |-> RouteFileKey(url),
   status |-> IF ReqParamsKey(url) = URIError THEN 400
              ELSE IF RouteFileKey(url) = URIError THEN 500 ELSE 302]

\* GET viewUrl
ProbeView ==
  /\ probe.stage = "record"
  /\ probe' = [probe EXCEPT !.stage = "viewed",
                            !.routeKey = RouteAnswer(probe.viewUrl).routeKey,
                            !.status = RouteAnswer(probe.viewUrl).status]
  /\ UNCHANGED <<uploads, deletes, storage, db, lastPut>>

\* GET downloadUrl
ProbeDownload ==
  /\ probe.stage = "record"
  /\ probe' = [probe EXCEPT !.stage = "downloaded",
                            !.routeKey = RouteAnswer(probe.downloadUrl).routeKey,
                            !.status = RouteAnswer(probe.downloadUrl).status]
  /\ UNCHANGED <<uploads, deletes, storage, db, lastPut>>

(***************************************************************************)
(* Specifications                                                          *)
(***************************************************************************)

Next ==
  \/ \E u \in UploadIds, batch \in Batches : UploadRequest(u, batch)
  \/ \E u \in UploadIds, i \in 1..MaxFiles : ParseDone(u, i)
  \/ \E u \in UploadIds, i \in 1..MaxFiles : CoverPutDone(u, i)
  \/ \E u \in UploadIds, i \in 1..MaxFiles : PrimaryPutDone(u, i)
  \/ \E u \in UploadIds, i \in 1..MaxFiles : CreateDone(u, i)
  \/ \E u \in UploadIds, i \in 1..MaxFiles : TaskFail(u, i)
  \/ \E d \in DeleteIds, id \in DbIds \cup {MissingId} : DeleteRequest(d, id)
  \/ \E d \in DeleteIds, id \in DbIds \cup {MissingId} : DeleteFindFail(d, id)
  \/ \E d \in DeleteIds : DeletePrimaryDone(d)
  \/ \E d \in DeleteIds : DeleteCoverDone(d)
  \/ \E d \in DeleteIds : DeleteOneDone(d)
  \/ \E d \in DeleteIds : DeleteFail(d)

Spec == Init /\ [][Next]_vars

\* The URL round trip of every file name up to MaxNameLen characters.
InitUrl ==
  /\ uploads = [u \in UploadIds |-> IdleUpload]
  /\ deletes = [d \in DeleteIds |-> IdleDelete]
  /\ storage = EmptyMap
  /\ db = <<>>
  /\ lastPut = EmptyMap
  /\ probe \in {[IdleProbe EXCEPT !.stage = "file", !.originalname = n] : n \in Names}

NextUrl == ProbeUpload \/ ProbeView \/ ProbeDownload

SpecUrl == InitUrl /\ [][NextUrl]_vars

\* The cover key of every file name up to MaxNameLen characters that carries
\* an embedded picture, from upload to delete.
CoverYears == {NULL, <<"2020">>}
CoverLanguages == {NULL, <<"m">>}
CoverFiles ==
  {[SongArt EXCEPT !.originalname = n, !.year = y, !.language = l] :
     n \in Names, y \in CoverYears, l \in CoverLanguages}

InitCover ==
  /\ uploads = [u \in UploadIds |-> IdleUpload]
  /\ deletes = [d \in DeleteIds |-> IdleDelete]
  /\ storage = EmptyMap
  /\ db = <<>>
  /\ lastPut = EmptyMap
  /\ probe \in {[stage |-> "file", file |-> f, coverImageKey |-> NULL,
                 coverImageUrl |-> NULL, deleteKey |-> NULL] : f \in CoverFiles}

\* POST /upload of one file with a picture, as far as its cover key and
\* coverImageUrl go.
CoverUpload ==
  /\ probe.stage = "file"
  /\ \E randomNum \in RandomNums :
       LET coverImageKey == coverImageKeyOf(probe.file, randomNum)
           rec == NewFile(MissingId, fileKey(probe.file), coverImageKey)
       IN probe' = [probe EXCEPT !.stage = "record",
                                 !.coverImageKey = coverImageKey,
                                 !.coverImageUrl = rec.coverImageUrl]
  /\ UNCHANGED <<uploads, deletes, storage, db, lastPut>>

\* DELETE /files/:id of that record, as far as the cover key goes.
CoverDelete ==
  /\ probe.stage = "record"
  /\ probe.coverImageUrl # NULL
  /\ probe' = [probe EXCEPT !.stage = "deleted",
                            !.deleteKey = DeleteCoverKey(probe)]
  /\ UNCHANGED <<uploads, deletes, storage, db, lastPut>>

NextCover == CoverUpload \/ CoverDelete

SpecCover == InitCover /\ [][NextCover]_vars


(***************************************************************************)
(* Properties                                                              *)
(***************************************************************************)

Range(seq) == {seq[n] : n \in 1..Len(seq)}

Tasks == {t \in UploadIds \X (1..MaxFiles) : t[2] <= Len(uploads[t[1]].pc)}

TaskFile(t) == uploads[t[1]].files[t[2]]

TaskPc(t) == uploads[t[1]].pc[t[2]]

\* The keys a delete request has applied a storage delete to.
KeysDeletedBy(d) ==
  (IF "primary" \in Range(deletes[d].steps) THEN {deletes[d].file.key} ELSE {})
  \cup (IF "cover" \in Range(deletes[d].steps)
        THEN {DeleteCoverKey(deletes[d].file)} ELSE {})

\* The deletions DELETE /files/:id is to apply to a record, in order.
DeletePlan(file) ==
  <<"primary">> \o (IF file.coverImageUrl # NULL THEN <<"cover">> ELSE <<>>)
                \o <<"record">>

IsPrefix(s, t) == Len(s) <= Len(t) /\ s = SubSeq(t, 1, Len(s))

\* C1 (as stated): in every reachable state every FileRecord in the database
\* has its primary object in storage under the record's key.
RecordHasObject == \A n \in 1..Len(db) : db[n].key \in DOMAIN storage

\* C1 (amended): every FileRecord in the database has its primary object in
\* storage under its key, unless a delete request has applied a storage
\* delete to that key; upload requests, failing or not, never break this.
RecordHasObjectUnlessDeleted ==
  \A n \in 1..Len(db) :
    \/ db[n].key \in DOMAIN storage
    \/ \E d \in DeleteIds : db[n].key \in KeysDeletedBy(d)

\* C1 witness: a record keeps its object while a delete request has run to
\* its end on another record.
RecordKeptItsObject ==
  \E n \in 1..Len(db) :
    /\ db[n].key \in DOMAIN storage
    /\ \E d \in DeleteIds : /\ deletes[d].lookup = "found"
                            /\ deletes[d].pc = "done"
                            /\ deletes[d].file._id # db[n]._id

\* C2: once DELETE /files/:id has answered 200, the record is in no GET /files
\* result, the object under its key is gone, and so is the cover-image object
\* the upload stored for it (an object put again after the lookup excepted).
DeleteRemovesRecordAndObjects ==
  \A d \in DeleteIds :
    deletes[d].status = 200 =>
      LET file == deletes[d].file
      IN /\ \A n \in 1..Len(GetFiles) : GetFiles[n]._id # file._id
         /\ file.key \in DOMAIN storage => LastPutOf(file.key) # deletes[d].seenPrimary
         /\ file.coverImageUrl # NULL =>
              (StoredCoverKey(file._id) \in DOMAIN storage
                 => LastPutOf(StoredCoverKey(file._id)) # deletes[d].seenCover)

\* An upload request multer refused: it holds a file of a type outside the
\* allow-list or larger than the size limit.
Refused(u) ==
  \E i \in 1..Len(uploads[u].files) :
    \/ uploads[u].files[i].mimetype \notin allowedTypes
    \/ uploads[u].files[i].size > FileSizeLimit

\* C3: an upload request holding a file of a disallowed type or over the size
\* limit is rejected before any storage write: no task of it runs, no object
\* is put and no FileRecord is inserted for any of its files.
RefusedBeforeStorage ==
  \A u \in UploadIds :
    Refused(u) =>
      /\ uploads[u].status >= 400
      /\ uploads[u].uploadedFiles = <<>>
      /\ \A i \in 1..Len(uploads[u].files) :
           /\ uploads[u].pc[i] = "none"
           /\ ObjectId(u, i) \notin DbIds
           /\ \A k \in DOMAIN lastPut : lastPut[k] # ObjectId(u, i)

\* C3 witness: a request was refused that holds an acceptable file beside the
\* refused one.
RefusedWithGoodSibling ==
  \E u \in UploadIds :
    /\ Refused(u)
    /\ uploads[u].status # 0
    /\ \E i \in 1..Len(uploads[u].files) :
         /\ uploads[u].files[i].mimetype \in allowedTypes
         /\ uploads[u].files[i].size <= FileSizeLimit

\* C4: every client-input error (a refused file type or size, an empty batch,
\* a delete of a missing record) is answered with a 4xx status and a JSON
\* { error } body, never with a 5xx.
ClientErrorsAre4xx ==
  /\ \A u \in UploadIds :
       (Refused(u) \/ (uploads[u].files = <<>> /\ uploads[u].status # 0)) =>
         /\ uploads[u].status \in 400..499
         /\ uploads[u].json
  /\ \A d \in DeleteIds :
       deletes[d].lookup = "missing" => deletes[d].status \in 400..499

ResponseInCompletionOrder ==
  \A u \in UploadIds :
    uploads[u].status = 200 =>
      uploads[u].uploadedFiles =
        [n \in 1..Len(uploads[u].completed) |-> ObjectId(u, uploads[u].completed[n])]

\* C6 (amended): a successful upload lists the created records of the batch
\* in the order of the files in the request, whatever order the tasks
\* completed in.
ResponseInRequestOrder ==
  \A u \in UploadIds :
    uploads[u].status = 200 =>
      /\ Len(uploads[u].uploadedFiles) = Len(uploads[u].files)
      /\ Len(uploads[u].files) > 0
      /\ \A i \in 1..Len(uploads[u].files) :
           uploads[u].uploadedFiles[i] = ObjectId(u, i)

\* C6 witness: a successful upload whose second file completed first.
AnsweredOutOfCompletionOrder ==
  \E u \in UploadIds :
    uploads[u].status = 200 /\ uploads[u].completed = <<2, 1>>

\* C7: viewUrl and downloadUrl are fixed functions of key and the base path,
\* and the key the view and download routes decode from either URL is the
\* original key, for every key.
UrlRoundTrip ==
  /\ probe.stage # "file" /\ probe.stage # "idle" =>
       /\ probe.viewUrl = viewUrlOf(probe.key)
       /\ probe.downloadUrl = downloadUrlOf(probe.key)
  /\ probe.stage \in {"viewed", "downloaded"} => probe.routeKey = probe.key

\* C8: when a task of an upload batch fails, the request is answered 500 with
\* no list of records, the failing step leaves storage and database as they
\* were, and no step of an upload request removes an object or a record.
BatchFailsWhole ==
  [][/\ \A u \in UploadIds :
          (\E i \in 1..Len(uploads'[u].pc) : uploads'[u].pc[i] = "failed") =>
            /\ uploads'[u].status = 500
            /\ uploads'[u].error = "File upload failed"
            /\ uploads'[u].uploadedFiles = <<>>
     /\ \A u \in UploadIds : \A i \in 1..Len(uploads[u].pc) :
          (uploads[u].pc[i] # "failed" /\ uploads'[u].pc[i] = "failed") =>
            storage' = storage /\ db' = db
     /\ deletes' = deletes =>
          /\ DbIds \subseteq {db'[n]._id : n \in 1..Len(db')}
          /\ DOMAIN storage \subseteq DOMAIN storage']_vars

\* C8 witness: a request answered 500 whose sibling task wrote its object and
\* its record, both still there.
FailedBatchKeepsSibling ==
  \E u \in UploadIds :
    /\ uploads[u].status = 500
    /\ \E i, j \in 1..Len(uploads[u].pc) :
         /\ uploads[u].pc[i] = "failed"
         /\ uploads[u].pc[j] = "done"
         /\ ObjectId(u, j) \in DbIds
         /\ fileKey(uploads[u].files[j]) \in DOMAIN storage

SameKey(t1, t2) == t1 # t2 /\ fileKey(TaskFile(t1)) = fileKey(TaskFile(t2))

\* The delete requests that removed record id.
RecordDeleters(id) ==
  {d \in DeleteIds : /\ deletes[d].lookup = "found"
                     /\ deletes[d].file._id = id
                     /\ "record" \in Range(deletes[d].steps)}

\* C9: two uploads that derive the same key are not held back by it (the put
\* and the insert of each can complete), each inserts its own FileRecord, and
\* storage holds under the key one object, the payload of the primary put
\* applied last (until a delete request removes the record or the object).
SameKeyLastWriterWins ==
  /\ \A t \in Tasks :
       /\ TaskPc(t) = "primaryPut" => ENABLED PrimaryPutDone(t[1], t[2])
       /\ TaskPc(t) = "create" => ENABLED CreateDone(t[1], t[2])
  /\ \A t1 \in Tasks, t2 \in Tasks :
       (SameKey(t1, t2) /\ TaskPc(t1) = "done" /\ TaskPc(t2) = "done") =>
         LET key == fileKey(TaskFile(t1))
         IN /\ \A t \in {t1, t2} :
                 \/ ObjectId(t[1], t[2]) \in DbIds
                 \/ RecordDeleters(ObjectId(t[1], t[2])) # {}
            /\ \/ key \in DOMAIN storage
               \/ \E d \in DeleteIds : key \in KeysDeletedBy(d)
            /\ key \in DOMAIN storage =>
                 \E t \in Tasks : /\ ObjectId(t[1], t[2]) = LastPutOf(key)
                                  /\ fileKey(TaskFile(t)) = key
                                  /\ storage[key].Body = TaskFile(t).buffer

\* C9 witness: two uploads of different payloads under one key are done, both
\* records are in the database, and the stored payload is the later one's.
TwoRecordsOneObject ==
  \E t1 \in Tasks, t2 \in Tasks :
    /\ SameKey(t1, t2)
    /\ TaskFile(t1).buffer # TaskFile(t2).buffer
    /\ TaskPc(t1) = "done" /\ TaskPc(t2) = "done"
    /\ {ObjectId(t1[1], t1[2]), ObjectId(t2[1], t2[2])} \subseteq DbIds
    /\ fileKey(TaskFile(t1)) \in DOMAIN storage
    /\ LastPutOf(fileKey(TaskFile(t1))) = ObjectId(t2[1], t2[2])
    /\ storage[fileKey(TaskFile(t1))].Body = TaskFile(t2).buffer

\* C10: DELETE /files/:id deletes the primary object, then the cover-image
\* object if the record has a coverImageUrl, then the record; a failing step
\* ends the request with a 500 and the one generic message, leaves the later
\* steps undone and the earlier deletions in place.
DeleteInOrder ==
  [][\A d \in DeleteIds :
       /\ deletes'[d].lookup = "found" =>
            /\ IsPrefix(deletes'[d].steps, DeletePlan(deletes'[d].file))
            /\ deletes'[d].status = 200 =>
                 deletes'[d].steps = DeletePlan(deletes'[d].file)
            /\ deletes'[d].status \in {0, 200, 500}
            /\ deletes'[d].status = 500 =>
                 /\ deletes'[d].error = "Failed to delete file"
                 /\ deletes'[d].steps # DeletePlan(deletes'[d].file)
       /\ deletes[d].pc = "done" => deletes'[d] = deletes[d]
       /\ (deletes[d].status = 0 /\ deletes'[d].status = 500) =>
            /\ storage' = storage
            /\ db' = db
            /\ deletes'[d].steps = deletes[d].steps]_vars

\* C10 witness: the record delete failed after the primary object was
\* deleted: the record is in the database without its primary object.
RecordLeftWithoutObject ==
  \E d \in DeleteIds :
    /\ deletes[d].status = 500
    /\ "primary" \in Range(deletes[d].steps)
    /\ deletes[d].file._id \in DbIds
    /\ deletes[d].file.key \notin DOMAIN storage

\* The moves of a per-file task from one awaited call to the next.
TaskMove(file, from, to) ==
  \/ from = "parse" /\ to = "coverPut" /\ file.picture # NoPicture
  \/ from = "parse" /\ to = "primaryPut" /\ file.picture = NoPicture
  \/ from = "coverPut" /\ to = "primaryPut"
  \/ from = "primaryPut" /\ to = "create"
  \/ from = "create" /\ to = "done"
  \/ from \in {"parse", "coverPut", "primaryPut", "create"} /\ to = "failed"

\* C11: a per-file task parses the metadata, puts the cover image (only with
\* an embedded picture), puts the primary object, then inserts the FileRecord;
\* each step follows the success of the one before, storage is written only
\* by the two put steps, a record is inserted only by the task that has
\* written its primary object, and a failed task has no record.
PerFileStepsInOrder ==
  [][\A u \in UploadIds : \A i \in 1..MaxFiles :
       /\ (i <= Len(uploads[u].pc) /\ uploads'[u].pc[i] # uploads[u].pc[i]) =>
            /\ TaskMove(uploads[u].files[i], uploads[u].pc[i], uploads'[u].pc[i])
            /\ uploads[u].pc[i] = "parse" => storage' = storage /\ db' = db
            /\ uploads'[u].pc[i] = "failed" => storage' = storage /\ db' = db
            /\ uploads[u].pc[i] = "coverPut" /\ uploads'[u].pc[i] = "primaryPut" =>
                 /\ uploads[u].coverImageKey[i] \in DOMAIN storage'
                 /\ storage'[uploads[u].coverImageKey[i]].Body
                      = uploads[u].files[i].picture.data
                 /\ db' = db
            /\ uploads'[u].pc[i] = "create" =>
                 /\ fileKey(uploads[u].files[i]) \in DOMAIN storage'
                 /\ storage'[fileKey(uploads[u].files[i])].Body
                      = uploads[u].files[i].buffer
                 /\ db' = db
            /\ uploads'[u].pc[i] = "done" =>
                 /\ Len(db') = Len(db) + 1
                 /\ db'[Len(db')]._id = ObjectId(u, i)
                 /\ db'[Len(db')].key = fileKey(uploads[u].files[i])
                 /\ storage' = storage
       /\ (i > Len(uploads[u].pc) /\ i <= Len(uploads'[u].pc)) =>
            uploads'[u].pc[i] \in {"parse", "none"}
       /\ (ObjectId(u, i) \notin DbIds
             /\ ObjectId(u, i) \in {db'[n]._id : n \in 1..Len(db')}) =>
            /\ i <= Len(uploads[u].pc)
            /\ uploads[u].pc[i] = "create"
            /\ uploads'[u].pc[i] = "done"
       /\ (i <= Len(uploads'[u].pc) /\ uploads'[u].pc[i] = "failed") =>
            ObjectId(u, i) \notin {db'[n]._id : n \in 1..Len(db')}]_vars

\* C11 witness: a task with an embedded picture has stored the cover image
\* and the primary object and inserted its record, and a sibling that failed
\* has no record.
TaskRanAllSteps ==
  \E t \in Tasks, f \in Tasks :
    /\ TaskPc(t) = "done"
    /\ TaskFile(t).picture # NoPicture
    /\ uploads[t[1]].coverImageKey[t[2]] \in DOMAIN storage
    /\ fileKey(TaskFile(t)) \in DOMAIN storage
    /\ ObjectId(t[1], t[2]) \in DbIds
    /\ TaskPc(f) = "failed"
    /\ ObjectId(f[1], f[2]) \notin DbIds

\* C12: the cover key the delete route derives from a record's coverImageUrl
\* is the coverImageKey the upload stored the picture under.
DeleteDerivesStoredCoverKey ==
  probe.stage = "deleted" => probe.deleteKey = probe.coverImageKey

====
